---- MODULE Spec2Model ----
(***************************************************************************)
(* Interop and native-contract dispatch core (package interop):            *)
(*   - syscall dispatch (Context.SyscallHandler / GetFunction),            *)
(*   - native contract descriptors (ContractMD.AddMethod / AddEvent,       *)
(*     buildHFSpecificMD, HFSpecificContractMD, GetMethod,                 *)
(*     GetMethodByOffset), also with concurrent callers,                   *)
(*   - teardown hooks and Exec (Context.RegisterCancelFunc / Finalize /    *)
(*     Exec),                                                              *)
(*   - the ledger view (Context.BlockHeight / CurrentBlockHash / GetBlock  *)
(*     / IsHardforkEnabled / IsHardforkActivation),                        *)
(*   - the data of the context (Context.InitNonceData / UseSigners /       *)
(*     Signers / AddNotification).                                         *)
(* The specifications share the variables: SpecDispatch (dispatch),        *)
(* SpecMD, SpecStub (registration and materialisation), SpecKey (the same  *)
(* with the zero hardfork among the arguments), SpecSafe (registration     *)
(* with any required flags), SpecLookup (registration, materialisation     *)
(* and method lookup), SpecBuild (materialisation by concurrent callers),  *)
(* SpecRace (the same with the zero hardfork among the arguments and the   *)
(* identities of the cached objects recorded), SpecCtx (teardown hooks     *)
(* and Exec), SpecView (ledger view), SpecNonce, SpecSigners and           *)
(* SpecNotify (data of the context); each leaves the other parts at their  *)
(* initial values.                                                         *)
(***************************************************************************)
EXTENDS Integers, Sequences, FiniteSets, TLC

VARIABLES
    \* ---- syscall dispatch ----
    Functions,      \* ic.Functions: the function table, sorted by ID
    baseExecFee,    \* ic.baseExecFee
    GasLimit,       \* ic.VM.GasLimit (negative: unbounded)
    gasConsumed,    \* ic.VM gas consumed so far
    last,           \* observation of the last SyscallHandler call, or NoDispatch
    \* ---- native contract descriptor ----
    Methods,        \* c.Methods
    Events,         \* c.Events
    ActiveHFs,      \* c.ActiveHFs
    mdCache,        \* c.mdCache: hardfork key -> HFSpecificContractMD
    builtFor,       \* for each cached key, the hf argument its descriptor was built for
    lookup,         \* observation of the last GetMethod / GetMethodByOffset call
    \* ---- teardown hooks ----
    cancelFuncs,    \* ic.cancelFuncs
    regCalls,       \* arguments of the RegisterCancelFunc calls since the last Finalize
    finLog,         \* hooks invoked by the last Finalize, in invocation order
    op,             \* the last context operation
    exec,           \* the Exec call in progress or just returned, else idle
    fin,            \* the list the last Finalize began with, and the hooks registered while it ran
    \* ---- ledger view of the invocation context ----
    Chain,          \* ic.Chain: the ledger, its height and the blocks it holds
    Block,          \* ic.Block: the attached (persisting) block, or NoBlock
    Hardforks,      \* ic.Hardforks: hardfork name -> activation height
    view,           \* observation of the last ledger-view or hardfork query
    \* ---- concurrent callers of HFSpecificContractMD ----
    thr,            \* for each caller, its position in the call and its local variables
    descOffsets,    \* Offset of the manifest.Method each c.Methods[i].MD points to
    builds,         \* the descriptors built so far, each with its caller and argument
    observed,       \* whether the specification records returned and cacheObj
    returned,       \* if observed: the keys that a call has returned a descriptor of
    cacheObj,       \* if observed: for each cached key, the build whose object the cache holds
    \* ---- data of the invocation context ----
    Container,      \* ic.Container
    Tx,             \* ic.Tx, or NoTx
    NonceData,      \* ic.NonceData
    signers,        \* ic.signers
    Notifications,  \* ic.Notifications
    used,           \* the argument of the last UseSigners call, if there was one
    ret             \* observation of the last call on the data of the context

dvars == <<Functions, baseExecFee, GasLimit, gasConsumed, last>>
mvars == <<Methods, Events, ActiveHFs, mdCache, builtFor, lookup>>
cvars == <<cancelFuncs, regCalls, finLog, op, exec, fin>>
lvars == <<Chain, Block, Hardforks, view>>
bvars == <<thr, descOffsets, builds, observed, returned, cacheObj>>
xvars == <<Container, Tx, NonceData, signers, Notifications, used, ret>>
vars  == <<Functions, baseExecFee, GasLimit, gasConsumed, last,
           Methods, Events, ActiveHFs, mdCache, builtFor, lookup,
           cancelFuncs, regCalls, finLog, op, exec, fin,
           Chain, Block, Hardforks, view,
           thr, descOffsets, builds, observed, returned, cacheObj,
           Container, Tx, NonceData, signers, Notifications, used, ret>>

----------------------------------------------------------------------------
(* Bounds of the model. *)

MaxCharges == 2     \* dispatches are issued while gasConsumed < MaxCharges * baseExecFee
MaxMethods == 3     \* AddMethod is called at most MaxMethods times
MaxEvents  == 1     \* AddEvent is called at most MaxEvents times
MaxHF      == 2     \* the hardforks are 1..MaxHF; 0 is the zero value of the type
MaxRegs    == 3     \* RegisterCancelFunc is called at most MaxRegs times between two Finalize
UintBits   == 7     \* the model's width of a uint32: block indexes and heights are 0..2^UintBits - 1
ByteBits   == 2     \* the model's width of a byte: bytes are 0..2^ByteBits - 1
MaxNotifs  == 2     \* AddNotification is called at most MaxNotifs times

----------------------------------------------------------------------------
(* Nil pointers of the invocation context. *)

\* A nil *block.Block.
NoBlock == [nil |-> TRUE]

\* A nil *transaction.Transaction.
NoTx == [nil |-> TRUE]

\* A nil hash.Hashable.
NoContainer == [kind |-> "nil"]

\* A slice is nil or holds a list of elements; a nil slice has no element.
NilSlice == [nil |-> TRUE, elems |-> <<>>]
Slice(elems) == [nil |-> FALSE, elems |-> elems]

\* The [16]byte of a new context: all zero.
ZeroNonceData == [i \in 1..16 |-> 0]

\* No Finalize has run yet.
NoFinalize == [before |-> <<>>, late |-> <<>>]

\* The goroutines that call HFSpecificContractMD, and one that is not in a call.
Threads == {1, 2}
IdleThread == [pc |-> "idle"]

----------------------------------------------------------------------------
(* Call flags (package callflag): a bitset. *)

ReadStates  == 1
WriteStates == 2
AllowCall   == 4
AllowNotify == 8
NoneFlag    == 0
States      == 3    \* ReadStates | WriteStates
ReadOnly    == 5    \* ReadStates | AllowCall
All         == 15   \* States | AllowCall | AllowNotify

\* The call flags a VM frame may carry in the model: the named values.
FrameFlags == {NoneFlag, ReadStates, WriteStates, States, AllowCall, ReadOnly,
               AllowNotify, All}

RECURSIVE BitAnd(_, _)
BitAnd(a, b) ==
    IF a = 0 \/ b = 0 THEN 0
    ELSE (a % 2) * (b % 2) + 2 * BitAnd(a \div 2, b \div 2)

\* The ^ operator of Go on unsigned integers.
RECURSIVE BitXor(_, _)
BitXor(a, b) ==
    IF a = 0 THEN b
    ELSE IF b = 0 THEN a
    ELSE ((a + b) % 2) + 2 * BitXor(a \div 2, b \div 2)

\* callflag.CallFlag.Has: f&cf == cf
Has(f, cf) == BitAnd(f, cf) = cf

----------------------------------------------------------------------------
(* sort.Search: the smallest index i in 0..n for which p[i] holds, found   *)
(* by bisection; p is a function on 0..n-1.                                *)

RECURSIVE SearchLoop(_, _, _)
SearchLoop(i, j, p) ==
    IF i < j
    THEN LET h == (i + j) \div 2
         IN  IF ~p[h] THEN SearchLoop(h + 1, j, p) ELSE SearchLoop(i, h, p)
    ELSE i

SortSearch(n, p) == SearchLoop(0, n, p)

----------------------------------------------------------------------------
(* Syscall dispatch. *)

DefaultBaseExecFee == 30

NoDispatch == [id |-> -1]

\* Sort: orders interop functions by id (insertion of each element in turn).
RECURSIVE SortFns(_)
SortFns(fs) ==
    IF fs = <<>> THEN <<>>
    ELSE LET rest == SortFns(Tail(fs))
             f    == Head(fs)
             k    == Cardinality({i \in 1..Len(rest) : rest[i].ID < f.ID})
         IN  SubSeq(rest, 1, k) \o <<f>> \o SubSeq(rest, k + 1, Len(rest))

\* A mutant of GetFunction: the id found is not compared with the id asked for.
GetFunctionNoIdCheck(fs, id) ==
    LET n == SortSearch(Len(fs), [i \in 0..(Len(fs) - 1) |-> fs[i + 1].ID >= id])
    IN  IF n < Len(fs) THEN n + 1 ELSE 0

\* GetFunction: the 1-based index of the function with the id, 0 for nil.
GetFunction(fs, id) ==
    LET n == SortSearch(Len(fs), [i \in 0..(Len(fs) - 1) |-> fs[i + 1].ID >= id])
    IN  IF n < Len(fs) /\ fs[n + 1].ID = id THEN n + 1 ELSE 0

\* VM.AddGas: whether the charge fits the gas limit.
AddGasOk(consumed, limit, gas) == limit < 0 \/ consumed + gas <= limit

\* The outcome of one dispatch. hres is what the handler returns when it is
\* invoked; keep tells whether a failed charge leaves the consumed gas as it was.
\* charged is the sequence of amounts passed to AddGas, handlerRets the
\* sequence of values returned by the handler invocations.

\* A mutant of Dispatch: the call flags are checked after the gas charge.
DispatchGasFirst(fs, id, cf, consumed, limit, fee, hres, keep) ==
    LET n == GetFunction(fs, id)
        base == [id |-> id, cf |-> cf, gasBefore |-> consumed]
    IN  IF n = 0
        THEN base @@ [result |-> "SyscallNotFound", charged |-> <<>>,
                      handlerRets |-> <<>>, gas |-> consumed]
        ELSE LET f   == fs[n]
                 amt == f.Price * fee
             IN  IF ~AddGasOk(consumed, limit, amt)
                 THEN base @@ [result |-> "InsufficientGas", charged |-> <<amt>>,
                               handlerRets |-> <<>>,
                               gas |-> IF keep THEN consumed ELSE consumed + amt]
                 ELSE IF ~Has(cf, f.RequiredFlags)
                 THEN base @@ [result |-> "MissingCallFlags", charged |-> <<amt>>,
                               handlerRets |-> <<>>, gas |-> consumed + amt]
                 ELSE base @@ [result |-> hres, charged |-> <<amt>>,
                               handlerRets |-> <<hres>>, gas |-> consumed + amt]

\* A mutant of Dispatch: the handler runs before the gas is charged.
DispatchHandlerFirst(fs, id, cf, consumed, limit, fee, hres, keep) ==
    LET n == GetFunction(fs, id)
        base == [id |-> id, cf |-> cf, gasBefore |-> consumed]
    IN  IF n = 0
        THEN base @@ [result |-> "SyscallNotFound", charged |-> <<>>,
                      handlerRets |-> <<>>, gas |-> consumed]
        ELSE LET f   == fs[n]
                 amt == f.Price * fee
             IN  IF ~Has(cf, f.RequiredFlags)
                 THEN base @@ [result |-> "MissingCallFlags", charged |-> <<>>,
                               handlerRets |-> <<>>, gas |-> consumed]
                 ELSE IF ~AddGasOk(consumed, limit, amt)
                 THEN base @@ [result |-> "InsufficientGas", charged |-> <<amt>>,
                               handlerRets |-> <<hres>>,
                               gas |-> IF keep THEN consumed ELSE consumed + amt]
                 ELSE base @@ [result |-> hres, charged |-> <<amt>>,
                               handlerRets |-> <<hres>>, gas |-> consumed + amt]

Dispatch(fs, id, cf, consumed, limit, fee, hres, keep) ==
    LET n == GetFunction(fs, id)
        base == [id |-> id, cf |-> cf, gasBefore |-> consumed]
    IN  IF n = 0
        THEN base @@ [result |-> "SyscallNotFound", charged |-> <<>>,
                      handlerRets |-> <<>>, gas |-> consumed]
        ELSE LET f   == fs[n]
                 amt == f.Price * fee
             IN  IF ~Has(cf, f.RequiredFlags)
                 THEN base @@ [result |-> "MissingCallFlags", charged |-> <<>>,
                               handlerRets |-> <<>>, gas |-> consumed]
                 ELSE IF ~AddGasOk(consumed, limit, amt)
                 THEN base @@ [result |-> "InsufficientGas", charged |-> <<amt>>,
                               handlerRets |-> <<>>,
                               gas |-> IF keep THEN consumed ELSE consumed + amt]
                 ELSE base @@ [result |-> hres, charged |-> <<amt>>,
                               handlerRets |-> <<hres>>, gas |-> consumed + amt]

\* The prices and required flags a registered function may declare.
Prices == {1, 2}
RequiredFlagChoices == {NoneFlag, WriteStates, ReadOnly}

\* The ids a table may hold, and the ids the VM may ask for: every table id,
\* one below, one between and one above.
FuncIDs == {1, 3}
SyscallIDs == 0..4

\* The function tables: for each id of a subset of FuncIDs one function,
\* registered in descending order and then sorted by Sort.
FunctionPool ==
    [ID : FuncIDs, Price : Prices, RequiredFlags : RequiredFlagChoices]

RECURSIVE TablesOver(_)
TablesOver(ids) ==
    IF ids = {} THEN {<<>>}
    ELSE LET id == CHOOSE x \in ids : \A y \in ids : x >= y
         IN  UNION {{<<f>> \o t : f \in {g \in FunctionPool : g.ID = id}}
                    : t \in TablesOver(ids \ {id})}

FunctionTables == UNION {TablesOver(ids) : ids \in SUBSET FuncIDs}

SyscallHandler(id, cf, hres, keep) ==
    /\ gasConsumed < MaxCharges * baseExecFee
    /\ LET r == Dispatch(Functions, id, cf, gasConsumed, GasLimit, baseExecFee, hres, keep)
       IN  /\ last' = r
           /\ gasConsumed' = r.gas
    /\ UNCHANGED <<Functions, baseExecFee, GasLimit, mvars, cvars, lvars, bvars, xvars>>

\* One dispatch reads at most one of hres and keep, so one choice e gives both.
NextDispatch ==
    \E id \in SyscallIDs, cf \in FrameFlags, e \in BOOLEAN :
        SyscallHandler(id, cf, IF e THEN "ok" ELSE "HandlerFailure", e)

InitDispatch ==
    /\ Functions \in {SortFns(t) : t \in FunctionTables}
    /\ baseExecFee \in {1, DefaultBaseExecFee}
    /\ GasLimit \in {-1, 2 * baseExecFee}
    /\ gasConsumed = 0
    /\ last = NoDispatch
    /\ Methods = <<>> /\ Events = <<>> /\ ActiveHFs = {}
    /\ mdCache = <<>> /\ builtFor = <<>> /\ lookup = [op |-> "none"]
    /\ cancelFuncs = <<>> /\ regCalls = <<>> /\ finLog = <<>> /\ op = "NewContext"
    /\ exec = [state |-> "idle"] /\ fin = NoFinalize
    /\ Chain = [height |-> 0, blocks |-> {0}] /\ Block = NoBlock
    /\ Hardforks = <<>> /\ view = [op |-> "none"]
    /\ thr = [t \in Threads |-> IdleThread] /\ descOffsets = <<>> /\ builds = {}
    /\ observed = FALSE /\ returned = {} /\ cacheObj = <<>>
    /\ Container = NoContainer /\ Tx = NoTx /\ NonceData = ZeroNonceData
    /\ signers = NilSlice /\ Notifications = <<>>
    /\ used = [called |-> FALSE] /\ ret = [op |-> "none"]

SpecDispatch == InitDispatch /\ [][NextDispatch]_vars

----------------------------------------------------------------------------
(* Native contract descriptors. *)

\* A nil *config.Hardfork.
NoHF == -1

\* config.Hardfork.Cmp: -1, 0 or 1 as hf is older than, equal to or newer than
\* other (older hardforks are smaller).
Cmp(hf, other) == IF hf = other THEN 0 ELSE IF hf < other THEN -1 ELSE 1

\* Names are sequences of characters; strings.Compare and the string
\* operators of Go order them bytewise.
RECURSIVE StrCompare(_, _)
StrCompare(a, b) ==
    IF a = <<>> /\ b = <<>> THEN 0
    ELSE IF a = <<>> THEN -1
    ELSE IF b = <<>> THEN 1
    ELSE IF Head(a) < Head(b) THEN -1
    ELSE IF Head(a) > Head(b) THEN 1
    ELSE StrCompare(Tail(a), Tail(b))

InsertAt(ms, index, m) ==
    SubSeq(ms, 1, index) \o <<m>> \o SubSeq(ms, index + 1, Len(ms))

\* A mutant of AddMethodList: overloads of a name are kept by descending
\* parameter count.
AddMethodListDescending(ms, m) ==
    LET index == SortSearch(Len(ms), [i \in 0..(Len(ms) - 1) |->
                    IF ms[i + 1].Name # m.Name
                    THEN StrCompare(ms[i + 1].Name, m.Name) >= 0
                    ELSE ms[i + 1].NParams < m.NParams])
    IN  InsertAt(ms, index, m)

\* A mutant of AddMethodList: the method is appended, as AddEvent does.
AddMethodListAppend(ms, m) == Append(ms, m)

\* AddMethod's update of c.Methods: the method goes to the first index whose
\* method has a greater name, or the same name and more parameters.
AddMethodList(ms, m) ==
    LET index == SortSearch(Len(ms), [i \in 0..(Len(ms) - 1) |->
                    IF ms[i + 1].Name # m.Name
                    THEN StrCompare(ms[i + 1].Name, m.Name) >= 0
                    ELSE ms[i + 1].NParams > m.NParams])
    IN  InsertAt(ms, index, m)

\* emit.Int(w, 0): PUSHINT8 with a one-byte operand.
EmitInt(w, v) == w \o <<0, v>>
\* emit.Syscall(w, System.Contract.CallNative): SYSCALL and the 4-byte id.
EmitSyscall(w) == w \o <<65, 26, 247, 123, 103>>
\* emit.Opcodes(w, opcode.RET)
EmitRET(w) == w \o <<64>>

\* The condition under which buildHFSpecificMD keeps a member declared with
\* ActiveFrom af when it builds for hf.
Keeps(af, hf) == af = NoHF \/ (hf # NoHF /\ Cmp(af, hf) >= 0)

\* The method loop of buildHFSpecificMD from index i on: w is the script
\* written so far, out the methods kept so far.

\* A mutant of BuildMethods: every method gets the syscall offset of the
\* first stub.
RECURSIVE BuildMethodsSameOffset(_, _, _, _, _)
BuildMethodsSameOffset(ms, i, hf, w, out) ==
    IF i > Len(ms) THEN [Methods |-> out, Script |-> w]
    ELSE LET m == ms[i]
         IN  IF ~Keeps(m.ActiveFrom, hf)
             THEN BuildMethodsSameOffset(ms, i + 1, hf, w, out)
             ELSE LET w1 == EmitInt(w, 0)
                      w2 == EmitRET(EmitSyscall(w1))
                      hm == [Name |-> m.Name, NParams |-> m.NParams,
                             Offset |-> Len(w), SyscallOffset |-> Len(EmitInt(<<>>, 0))]
                  IN  BuildMethodsSameOffset(ms, i + 1, hf, w2, Append(out, hm))

\* A mutant of BuildMethods: the offset of a method is recorded after its
\* push is emitted.
RECURSIVE BuildMethodsOffsetAfterPush(_, _, _, _, _)
BuildMethodsOffsetAfterPush(ms, i, hf, w, out) ==
    IF i > Len(ms) THEN [Methods |-> out, Script |-> w]
    ELSE LET m == ms[i]
         IN  IF ~Keeps(m.ActiveFrom, hf)
             THEN BuildMethodsOffsetAfterPush(ms, i + 1, hf, w, out)
             ELSE LET w1 == EmitInt(w, 0)
                      w2 == EmitRET(EmitSyscall(w1))
                      hm == [Name |-> m.Name, NParams |-> m.NParams,
                             Offset |-> Len(w1), SyscallOffset |-> Len(w1)]
                  IN  BuildMethodsOffsetAfterPush(ms, i + 1, hf, w2, Append(out, hm))

RECURSIVE BuildMethods(_, _, _, _, _)
BuildMethods(ms, i, hf, w, out) ==
    IF i > Len(ms) THEN [Methods |-> out, Script |-> w]
    ELSE LET m == ms[i]
         IN  IF ~Keeps(m.ActiveFrom, hf)
             THEN BuildMethods(ms, i + 1, hf, w, out)
             ELSE LET w1 == EmitInt(w, 0)
                      w2 == EmitRET(EmitSyscall(w1))
                      hm == [Name |-> m.Name, NParams |-> m.NParams,
                             Offset |-> Len(w), SyscallOffset |-> Len(w1)]
                  IN  BuildMethods(ms, i + 1, hf, w2, Append(out, hm))

\* The event loop of buildHFSpecificMD from index i on.
RECURSIVE BuildEvents(_, _, _, _)
BuildEvents(es, i, hf, out) ==
    IF i > Len(es) THEN out
    ELSE IF ~Keeps(es[i].ActiveFrom, hf)
         THEN BuildEvents(es, i + 1, hf, out)
         ELSE BuildEvents(es, i + 1, hf, Append(out, [Name |-> es[i].Name]))

\* The cache key of a hardfork argument: the zero value for nil.
KeyOf(hf) == IF hf # NoHF THEN hf ELSE 0

\* The descriptor buildHFSpecificMD builds for hf.
buildHFSpecificMD(ms, es, hf) ==
    LET b == BuildMethods(ms, 1, hf, <<>>, <<>>)
    IN  [Methods |-> b.Methods,
         Events  |-> BuildEvents(es, 1, hf, <<>>),
         Script  |-> b.Script]

NoMethod == [Name |-> <<>>, NParams |-> 0, Offset |-> 0, SyscallOffset |-> 0]

\* GetMethodByOffset: the first method with the syscall offset.
GetMethodByOffset(md, offset) ==
    LET hits == {k \in 1..Len(md.Methods) : md.Methods[k].SyscallOffset = offset}
    IN  IF hits = {} THEN [found |-> FALSE, m |-> NoMethod]
        ELSE [found |-> TRUE,
              m |-> md.Methods[CHOOSE k \in hits : \A j \in hits : k <= j]]

\* A mutant of GetMethod: the arity -1 is not treated as "any".
GetMethodExactOnly(md, name, paramCount) ==
    LET n == Len(md.Methods)
        index == SortSearch(n, [i \in 0..(n - 1) |->
                    LET res == StrCompare(name, md.Methods[i + 1].Name)
                    IN  IF res # 0 THEN res = -1
                        ELSE paramCount <= md.Methods[i + 1].NParams])
    IN  IF /\ index < n
           /\ md.Methods[index + 1].Name = name
           /\ md.Methods[index + 1].NParams = paramCount
        THEN [found |-> TRUE, m |-> md.Methods[index + 1]]
        ELSE [found |-> FALSE, m |-> NoMethod]

GetMethod(md, name, paramCount) ==
    LET n == Len(md.Methods)
        index == SortSearch(n, [i \in 0..(n - 1) |->
                    LET res == StrCompare(name, md.Methods[i + 1].Name)
                    IN  IF res # 0 THEN res = -1
                        ELSE paramCount <= md.Methods[i + 1].NParams])
    IN  IF /\ index < n
           /\ md.Methods[index + 1].Name = name
           /\ (paramCount = -1 \/ md.Methods[index + 1].NParams = paramCount)
        THEN [found |-> TRUE, m |-> md.Methods[index + 1]]
        ELSE [found |-> FALSE, m |-> NoMethod]

\* A mutant of Safe: a method is safe when it requires no flag at all.
SafeIfNoneRequired(requiredFlags) == requiredFlags = NoneFlag

\* desc.Safe as AddMethod sets it:
\* md.RequiredFlags&(callflag.All^callflag.ReadOnly) == 0.
Safe(requiredFlags) == BitAnd(requiredFlags, BitXor(All, ReadOnly)) = 0

\* ---- operations ----

\* Registration happens before any descriptor is materialised.
Registering == DOMAIN mdCache = {}

\* AddMethod for a declaration with RequiredFlags rf: Safe is set in the
\* manifest.Method the declaration points to, and the declaration inserted.
AddMethod(name, nparams, af, rf) ==
    /\ Registering
    /\ Len(Methods) < MaxMethods
    /\ Methods' = AddMethodList(Methods,
                      [Name |-> name, NParams |-> nparams, ActiveFrom |-> af,
                       RequiredFlags |-> rf, Safe |-> Safe(rf)])
    /\ ActiveHFs' = IF af # NoHF THEN ActiveHFs \cup {af} ELSE ActiveHFs
    /\ UNCHANGED <<Events, mdCache, builtFor, lookup, dvars, cvars, lvars, bvars, xvars>>

AddEvent(name, af) ==
    /\ Registering
    /\ Len(Events) < MaxEvents
    /\ Events' = Append(Events, [Name |-> name, ActiveFrom |-> af])
    /\ ActiveHFs' = IF af # NoHF THEN ActiveHFs \cup {af} ELSE ActiveHFs
    /\ UNCHANGED <<Methods, mdCache, builtFor, lookup, dvars, cvars, lvars, bvars, xvars>>

\* HFSpecificContractMD(hf) by one caller: a cached descriptor is returned as
\* it is, otherwise buildHFSpecificMD builds one and stores it under the key.
HFSpecificContractMD(hf) ==
    /\ LET key == KeyOf(hf)
       IN  IF key \in DOMAIN mdCache
           THEN UNCHANGED <<mdCache, builtFor>>
           ELSE /\ mdCache' = (key :> buildHFSpecificMD(Methods, Events, hf)) @@ mdCache
                /\ builtFor' = (key :> hf) @@ builtFor
    /\ lookup' = [op |-> "HFSpecificContractMD", hf |-> hf]
    /\ UNCHANGED <<Methods, Events, ActiveHFs, dvars, cvars, lvars, bvars, xvars>>

LookupMethod(key, name, paramCount) ==
    /\ key \in DOMAIN mdCache
    /\ lookup' = [op |-> "GetMethod", key |-> key, name |-> name, n |-> paramCount]
                    @@ GetMethod(mdCache[key], name, paramCount)
    /\ UNCHANGED <<Methods, Events, ActiveHFs, mdCache, builtFor, dvars, cvars, lvars, bvars, xvars>>

LookupMethodByOffset(key, offset) ==
    /\ key \in DOMAIN mdCache
    /\ lookup' = [op |-> "GetMethodByOffset", key |-> key, offset |-> offset]
                    @@ GetMethodByOffset(mdCache[key], offset)
    /\ UNCHANGED <<Methods, Events, ActiveHFs, mdCache, builtFor, dvars, cvars, lvars, bvars, xvars>>

\* ---- inputs ----

HFs == 1..MaxHF
CacheKeys == 0..MaxHF
MethodNames == {<<1>>, <<1, 2>>}             \* "a" and "ab"
QueryNames  == MethodNames \cup {<<2>>}      \* and "b", which is never registered
ParamCounts == {0, 1, 2}
EventNames  == {<<5>>, <<6>>}
\* Stub boundaries and syscall offsets of the first MaxMethods + 1 stubs.
OffsetInputs == {8 * i + d : i \in 0..MaxMethods, d \in {0, 2}}

NextMD ==
    \/ \E name \in MethodNames, np \in {0, 1}, af \in {NoHF} \cup HFs :
           AddMethod(name, np, af, NoneFlag)
    \/ \E name \in EventNames, af \in {NoHF} \cup HFs : AddEvent(name, af)
    \/ \E hf \in {NoHF} \cup HFs : HFSpecificContractMD(hf)

\* NewContractMD: no methods, no events, an empty cache.
InitMD ==
    /\ Methods = <<>> /\ Events = <<>> /\ ActiveHFs = {}
    /\ mdCache = <<>> /\ builtFor = <<>> /\ lookup = [op |-> "none"]
    /\ Functions = <<>> /\ baseExecFee = DefaultBaseExecFee /\ GasLimit = -1
    /\ gasConsumed = 0 /\ last = [id |-> -1]
    /\ cancelFuncs = <<>> /\ regCalls = <<>> /\ finLog = <<>> /\ op = "NewContext"
    /\ exec = [state |-> "idle"] /\ fin = NoFinalize
    /\ Chain = [height |-> 0, blocks |-> {0}] /\ Block = NoBlock
    /\ Hardforks = <<>> /\ view = [op |-> "none"]
    /\ thr = [t \in Threads |-> IdleThread] /\ descOffsets = <<>> /\ builds = {}
    /\ observed = FALSE /\ returned = {} /\ cacheObj = <<>>
    /\ Container = NoContainer /\ Tx = NoTx /\ NonceData = ZeroNonceData
    /\ signers = NilSlice /\ Notifications = <<>>
    /\ used = [called |-> FALSE] /\ ret = [op |-> "none"]

SpecMD == InitMD /\ [][NextMD]_vars

NextLookup ==
    \/ \E name \in MethodNames, np \in ParamCounts, af \in {NoHF, 1} :
           AddMethod(name, np, af, NoneFlag)
    \/ \E hf \in {NoHF} : HFSpecificContractMD(hf)
    \/ \E key \in CacheKeys, name \in QueryNames, n \in {-1} \cup ParamCounts :
           LookupMethod(key, name, n)
    \/ \E key \in CacheKeys, off \in OffsetInputs : LookupMethodByOffset(key, off)

SpecLookup == InitMD /\ [][NextLookup]_vars

\* Registration of methods of any hardfork, and materialisation for any
\* hardfork.
NextStub ==
    \/ \E name \in MethodNames, af \in {NoHF} \cup HFs : AddMethod(name, 0, af, NoneFlag)
    \/ \E hf \in {NoHF} \cup HFs : HFSpecificContractMD(hf)

SpecStub == InitMD /\ [][NextStub]_vars

\* The zero value of config.Hardfork, which a set hardfork argument may hold.
ZeroHardfork == 0

\* Registration, and materialisation for any argument: nil, the zero
\* hardfork or a hardfork.
NextKey ==
    \/ \E name \in MethodNames, af \in {NoHF} \cup HFs :
           AddMethod(name, 0, af, NoneFlag)
    \/ \E name \in EventNames, af \in {NoHF} \cup HFs : AddEvent(name, af)
    \/ \E hf \in {NoHF, ZeroHardfork} \cup HFs : HFSpecificContractMD(hf)

SpecKey == InitMD /\ [][NextKey]_vars

\* The width of a call-flag value, and the values of that width.
FlagBits == 5
CallFlagValues == 0..(2 ^ FlagBits - 1)

\* Registration of up to three methods with any required flags.
NextSafe ==
    \E rf \in CallFlagValues :
        Len(Methods) < 3 /\ AddMethod(<<1>>, 0, NoHF, rf)

SpecSafe == InitMD /\ [][NextSafe]_vars

----------------------------------------------------------------------------
(* HFSpecificContractMD called by concurrent goroutines, after registration. *)
(* A caller holds its hf argument and, while it builds, the locals of       *)
(* buildHFSpecificMD: the index i, the script w, methods and abiMethods.    *)
(* A step holds at most one access to what the callers share: the cache    *)
(* and the manifest.Method objects the declarations point to.              *)

\* nef.File.CalculateChecksum: a function of the header, which is constant,
\* and of the script.
RECURSIVE Checksum(_)
Checksum(script) ==
    IF script = <<>> THEN 7
    ELSE (31 * Checksum(SubSeq(script, 1, Len(script) - 1))
             + script[Len(script)]) % 65536

\* A mutant of SetOffset: the offset is written through m.MD with no copy
\* made, into the manifest.Method the declaration points to.
SetOffsetInPlace(shared, off) == [shared |-> off, own |-> off, alias |-> TRUE]

\* md := *m.MD; m.MD = &md; m.MD.Offset = w.Len(): the offset is set in the
\* caller's own copy, the manifest.Method of the declaration keeps its
\* Offset.
SetOffset(shared, off) == [shared |-> shared, own |-> off, alias |-> FALSE]

\* The identity of a descriptor object is its build: the argument and the
\* caller (a caller builds at most once for a key, which is cached when the
\* build ends). NoObj stands for it where identities are not recorded.
NoObj == [hf |-> NoHF, by |-> 0]

\* md, ok := c.mdCache[key], when ok: the entry of the key.
CacheGet(cache, key) == cache[key]

\* A mutant of CachePut: the entry is not written.
CachePutDropped(cache, key, md) == cache

\* c.mdCache[key] = md: the entry of the key is md, any earlier entry of
\* the key is replaced.
CachePut(cache, key, md) == (key :> md) @@ cache

\* HFSpecificContractMD(hf) is entered; the caller notes whether a call for
\* the key has returned before.
Call(t, hf) ==
    /\ thr[t].pc = "idle"
    /\ thr' = [thr EXCEPT ![t] = [pc |-> "check", hf |-> hf,
                                 after |-> KeyOf(hf) \in returned]]
    /\ UNCHANGED <<descOffsets, builds, observed, returned, cacheObj,
                   mvars, dvars, cvars, lvars, xvars>>

\* The cache is read under the read lock: a hit returns the cached
\* descriptor, a miss enters buildHFSpecificMD.
CheckCache(t) ==
    /\ thr[t].pc = "check"
    /\ thr' = [thr EXCEPT ![t] =
                 IF KeyOf(thr[t].hf) \in DOMAIN mdCache
                 THEN [pc |-> "done", hf |-> thr[t].hf, after |-> thr[t].after,
                       built |-> FALSE,
                       md |-> CacheGet(mdCache, KeyOf(thr[t].hf)),
                       obj |-> IF observed
                               THEN CacheGet(cacheObj, KeyOf(thr[t].hf))
                               ELSE NoObj]
                 ELSE [pc |-> "loop", hf |-> thr[t].hf, after |-> thr[t].after,
                       i |-> 1, w |-> <<>>,
                       methods |-> <<>>, abiMethods |-> <<>>]]
    /\ UNCHANGED <<descOffsets, builds, observed, returned, cacheObj,
                   mvars, dvars, cvars, lvars, xvars>>

\* The head of the method loop: the method is skipped, or its descriptor is
\* copied and the offset set.
LoopHead(t) ==
    /\ thr[t].pc = "loop"
    /\ thr[t].i <= Len(Methods)
    /\ LET c == thr[t]
           i == c.i
       IN  IF ~Keeps(Methods[i].ActiveFrom, c.hf)
           THEN /\ thr' = [thr EXCEPT ![t].i = i + 1]
                /\ UNCHANGED descOffsets
           ELSE LET r == SetOffset(descOffsets[i], Len(c.w))
                IN  /\ thr' = [thr EXCEPT ![t] =
                                 [pc |-> "emit", hf |-> c.hf, after |-> c.after,
                                  i |-> i, w |-> c.w,
                                  methods |-> c.methods, abiMethods |-> c.abiMethods,
                                  own |-> r.own, alias |-> r.alias]]
                    /\ descOffsets' = [descOffsets EXCEPT ![i] = r.shared]
    /\ UNCHANGED <<builds, observed, returned, cacheObj,
                   mvars, dvars, cvars, lvars, xvars>>

\* The rest of the loop body: the stub is emitted, and the method and the
\* descriptor m.MD points to are appended to methods and abiMethods.
LoopEmit(t) ==
    /\ thr[t].pc = "emit"
    /\ LET c   == thr[t]
           m   == Methods[c.i]
           w1  == EmitInt(c.w, 0)
           off == IF c.alias THEN descOffsets[c.i] ELSE c.own
           hm  == [Name |-> m.Name, NParams |-> m.NParams,
                   Offset |-> off, SyscallOffset |-> Len(w1)]
       IN  thr' = [thr EXCEPT ![t] =
                     [pc |-> "loop", hf |-> c.hf, after |-> c.after, i |-> c.i + 1,
                      w |-> EmitRET(EmitSyscall(w1)),
                      methods |-> Append(c.methods, hm),
                      abiMethods |-> Append(c.abiMethods,
                                       [Name |-> m.Name, Offset |-> off])]]
    /\ UNCHANGED <<descOffsets, builds, observed, returned, cacheObj,
                   mvars, dvars, cvars, lvars, xvars>>

\* After the method loop: the events are filtered, the NEF file and the
\* manifest are made and the descriptor is assembled.
Assemble(t) ==
    /\ thr[t].pc = "loop"
    /\ thr[t].i > Len(Methods)
    /\ LET c == thr[t]
       IN  thr' = [thr EXCEPT ![t] =
                     [pc |-> "store", hf |-> c.hf, after |-> c.after,
                      md |-> [Methods    |-> c.methods,
                              Events     |-> BuildEvents(Events, 1, c.hf, <<>>),
                              Script     |-> c.w,
                              Checksum   |-> Checksum(c.w),
                              ABIMethods |-> c.abiMethods]]]
    /\ UNCHANGED <<descOffsets, builds, observed, returned, cacheObj,
                   mvars, dvars, cvars, lvars, xvars>>

\* The descriptor is put into the cache under the write lock and returned.
Store(t) ==
    /\ thr[t].pc = "store"
    /\ LET c == thr[t]
           key == KeyOf(c.hf)
           obj == IF observed THEN [hf |-> c.hf, by |-> t] ELSE NoObj
       IN  /\ mdCache' = CachePut(mdCache, key, c.md)
           /\ cacheObj' = IF observed THEN CachePut(cacheObj, key, obj)
                           ELSE cacheObj
           /\ builtFor' = (key :> c.hf) @@ builtFor
           /\ builds' = builds \cup {[hf |-> c.hf, by |-> t, md |-> c.md]}
           /\ thr' = [thr EXCEPT ![t] =
                         [pc |-> "done", hf |-> c.hf, after |-> c.after,
                          built |-> TRUE, md |-> c.md, obj |-> obj]]
    /\ UNCHANGED <<descOffsets, observed, returned, Methods, Events, ActiveHFs, lookup,
                   dvars, cvars, lvars, xvars>>

\* The call returns its descriptor.
Return(t) ==
    /\ thr[t].pc = "done"
    /\ thr' = [thr EXCEPT ![t] = IdleThread]
    /\ returned' = IF observed THEN returned \cup {KeyOf(thr[t].hf)}
                    ELSE returned
    /\ UNCHANGED <<descOffsets, builds, observed, cacheObj,
                   mvars, dvars, cvars, lvars, xvars>>

\* ---- inputs ----

\* The hardfork arguments of the callers.
BuildHFs == {NoHF, 1, 2}

\* The declarations: the method lists AddMethod leaves after at most n
\* calls, and the event lists.
DeclaredMethods ==
    [Name : MethodNames, NParams : {0}, ActiveFrom : BuildHFs,
     RequiredFlags : {NoneFlag}, Safe : {Safe(NoneFlag)}]

RECURSIVE MethodLists(_)
MethodLists(n) ==
    IF n = 0 THEN {<<>>}
    ELSE MethodLists(n - 1) \cup
         {AddMethodList(ms, m) : ms \in MethodLists(n - 1), m \in DeclaredMethods}

EventLists == {<<[Name |-> <<5>>, ActiveFrom |-> NoHF], [Name |-> <<6>>, ActiveFrom |-> 1]>>}

\* A registered contract that no descriptor has been asked of yet.
InitBuild ==
    /\ Methods \in MethodLists(2)
    /\ Events \in EventLists
    /\ ActiveHFs = ({Methods[i].ActiveFrom : i \in 1..Len(Methods)}
                       \cup {Events[i].ActiveFrom : i \in 1..Len(Events)}) \ {NoHF}
    /\ mdCache = <<>> /\ builtFor = <<>> /\ lookup = [op |-> "none"]
    /\ thr = [t \in Threads |-> IdleThread]
    /\ descOffsets = [i \in 1..Len(Methods) |-> 0]
    /\ builds = {}
    /\ observed = FALSE /\ returned = {} /\ cacheObj = <<>>
    /\ Functions = <<>> /\ baseExecFee = DefaultBaseExecFee /\ GasLimit = -1
    /\ gasConsumed = 0 /\ last = [id |-> -1]
    /\ cancelFuncs = <<>> /\ regCalls = <<>> /\ finLog = <<>> /\ op = "NewContext"
    /\ exec = [state |-> "idle"] /\ fin = NoFinalize
    /\ Chain = [height |-> 0, blocks |-> {0}] /\ Block = NoBlock
    /\ Hardforks = <<>> /\ view = [op |-> "none"]
    /\ Container = NoContainer /\ Tx = NoTx /\ NonceData = ZeroNonceData
    /\ signers = NilSlice /\ Notifications = <<>>
    /\ used = [called |-> FALSE] /\ ret = [op |-> "none"]

NextBuild ==
    \E t \in Threads :
        \/ \E hf \in BuildHFs : Call(t, hf)
        \/ CheckCache(t)
        \/ LoopHead(t)
        \/ LoopEmit(t)
        \/ Assemble(t)
        \/ Store(t)
        \/ Return(t)

SpecBuild == InitBuild /\ [][NextBuild]_vars

\* The hardfork arguments of callers that share the zero key: nil and the
\* zero hardfork, and a hardfork.
RaceHFs == {NoHF, ZeroHardfork, 1}

\* Declarations of one or two methods of different names, each always
\* active or active from hardfork 1.
RaceMethodLists ==
    {ms \in MethodLists(2) :
        /\ Len(ms) >= 1
        /\ \A i \in 1..Len(ms) : ms[i].ActiveFrom \in {NoHF, 1}
        /\ \A i, j \in 1..Len(ms) : i # j => ms[i].Name # ms[j].Name}

\* A registered contract that no descriptor has been asked of yet, with the
\* returned keys and the identities of the cached objects recorded.
InitRace ==
    /\ Methods \in RaceMethodLists
    /\ Events \in EventLists
    /\ ActiveHFs = ({Methods[i].ActiveFrom : i \in 1..Len(Methods)}
                       \cup {Events[i].ActiveFrom : i \in 1..Len(Events)}) \ {NoHF}
    /\ mdCache = <<>> /\ builtFor = <<>> /\ lookup = [op |-> "none"]
    /\ thr = [t \in Threads |-> IdleThread]
    /\ descOffsets = [i \in 1..Len(Methods) |-> 0]
    /\ builds = {}
    /\ observed = TRUE /\ returned = {} /\ cacheObj = <<>>
    /\ Functions = <<>> /\ baseExecFee = DefaultBaseExecFee /\ GasLimit = -1
    /\ gasConsumed = 0 /\ last = [id |-> -1]
    /\ cancelFuncs = <<>> /\ regCalls = <<>> /\ finLog = <<>> /\ op = "NewContext"
    /\ exec = [state |-> "idle"] /\ fin = NoFinalize
    /\ Chain = [height |-> 0, blocks |-> {0}] /\ Block = NoBlock
    /\ Hardforks = <<>> /\ view = [op |-> "none"]
    /\ Container = NoContainer /\ Tx = NoTx /\ NonceData = ZeroNonceData
    /\ signers = NilSlice /\ Notifications = <<>>
    /\ used = [called |-> FALSE] /\ ret = [op |-> "none"]

NextRace ==
    \E t \in Threads :
        \/ \E hf \in RaceHFs : Call(t, hf)
        \/ CheckCache(t)
        \/ LoopHead(t)
        \/ LoopEmit(t)
        \/ Assemble(t)
        \/ Store(t)
        \/ Return(t)

SpecRace == InitRace /\ [][NextRace]_vars

----------------------------------------------------------------------------
(* Teardown hooks of the invocation context. *)

\* A nil context.CancelFunc.
NilFunc == 0

\* The hooks of the model. A hook is opaque code that may itself call
\* RegisterCancelFunc: hook 3 registers hook 1 when it runs, the others
\* register nothing.
Hooks == {1, 2, 3}
RegistersOnRun(h) == IF h = 3 THEN 1 ELSE NilFunc

\* What RegisterCancelFunc(f) leaves in the list cfs.
Registered(cfs, f) == IF f # NilFunc THEN Append(cfs, f) ELSE cfs

\* The loop of Finalize over the list as it stood when the loop began
\* (range evaluates its operand once): log is the sequence of hooks invoked,
\* cfs the list, which a running hook may extend.
RECURSIVE RunHooks(_, _, _, _)
RunHooks(snapshot, i, cfs, log) ==
    IF i > Len(snapshot) THEN [log |-> log, cfs |-> cfs]
    ELSE RunHooks(snapshot, i + 1,
                  Registered(cfs, RegistersOnRun(snapshot[i])),
                  Append(log, snapshot[i]))

\* The hooks appended to the list while the loop of Finalize ran over cfs
\* and left the list as after.
Late(cfs, after) == SubSeq(after, Len(cfs) + 1, Len(after))

\* A mutant of FinalizeResult: the list is not cleared after the loop.
FinalizeResultKeepsList(cfs) ==
    LET r == RunHooks(cfs, 1, cfs, <<>>)
    IN  [log |-> r.log, cfs |-> r.cfs, late |-> Late(cfs, r.cfs)]

\* Finalize on the list cfs: the hooks invoked, the list afterwards (nil),
\* and the hooks that running hooks registered meanwhile.
FinalizeResult(cfs) ==
    LET r == RunHooks(cfs, 1, cfs, <<>>)
    IN  [log |-> r.log, cfs |-> <<>>, late |-> Late(cfs, r.cfs)]

RegisterCancelFunc(f) ==
    /\ Len(regCalls) < MaxRegs
    /\ cancelFuncs' = Registered(cancelFuncs, f)
    /\ regCalls' = Append(regCalls, f)
    /\ op' = "RegisterCancelFunc"
    /\ exec' = IF exec.state = "running" THEN exec ELSE [state |-> "idle"]
    /\ UNCHANGED <<finLog, fin, dvars, mvars, lvars, bvars, xvars>>

\* Finalize called by the owner of the context, which is inside Exec while
\* the VM runs.
Finalize ==
    /\ exec.state # "running"
    /\ LET r == FinalizeResult(cancelFuncs)
       IN  /\ finLog' = r.log
           /\ cancelFuncs' = r.cfs
           /\ fin' = [before |-> cancelFuncs, late |-> r.late]
    /\ regCalls' = <<>>
    /\ op' = "Finalize"
    /\ exec' = [state |-> "idle"]
    /\ UNCHANGED <<dvars, mvars, lvars, bvars, xvars>>

\* The results of VM.Run: nil, or an error when the script faults.
RunResults == {"HALT", "FAULT"}

\* A mutant of ExecExit: Finalize is called after a successful run only.
ExecExitOnSuccessOnly(cfs, res) ==
    IF res = "HALT" THEN FinalizeResult(cfs)
    ELSE [log |-> <<>>, cfs |-> cfs, late |-> <<>>]

\* The exit of Exec when VM.Run has returned res: the deferred Finalize runs.
ExecExit(cfs, res) == FinalizeResult(cfs)

\* Exec, up to the call of VM.Run. While the VM runs, the handlers of the
\* script may call RegisterCancelFunc.
ExecRun ==
    /\ exec.state # "running"
    /\ exec' = [state |-> "running", before |-> regCalls]
    /\ op' = "Run"
    /\ UNCHANGED <<cancelFuncs, regCalls, finLog, fin, dvars, mvars, lvars, bvars, xvars>>

\* Exec, from the return of VM.Run with res.
ExecReturn(res) ==
    /\ exec.state = "running"
    /\ LET r == ExecExit(cancelFuncs, res)
       IN  /\ finLog' = r.log
           /\ cancelFuncs' = r.cfs
           /\ fin' = [before |-> cancelFuncs, late |-> r.late]
    /\ exec' = [state |-> "returned", result |-> res,
                before |-> exec.before, registered |-> regCalls]
    /\ regCalls' = <<>>
    /\ op' = "Exec"
    /\ UNCHANGED <<dvars, mvars, lvars, bvars, xvars>>

\* NewContext: no hook is registered.
InitCtx ==
    /\ cancelFuncs = <<>> /\ regCalls = <<>> /\ finLog = <<>> /\ op = "NewContext"
    /\ exec = [state |-> "idle"] /\ fin = NoFinalize
    /\ Chain = [height |-> 0, blocks |-> {0}] /\ Block = NoBlock
    /\ Hardforks = <<>> /\ view = [op |-> "none"]
    /\ thr = [t \in Threads |-> IdleThread] /\ descOffsets = <<>> /\ builds = {}
    /\ observed = FALSE /\ returned = {} /\ cacheObj = <<>>
    /\ Container = NoContainer /\ Tx = NoTx /\ NonceData = ZeroNonceData
    /\ signers = NilSlice /\ Notifications = <<>>
    /\ used = [called |-> FALSE] /\ ret = [op |-> "none"]
    /\ Functions = <<>> /\ baseExecFee = DefaultBaseExecFee /\ GasLimit = -1
    /\ gasConsumed = 0 /\ last = [id |-> -1]
    /\ Methods = <<>> /\ Events = <<>> /\ ActiveHFs = {}
    /\ mdCache = <<>> /\ builtFor = <<>> /\ lookup = [op |-> "none"]

NextCtx ==
    \/ \E f \in {NilFunc} \cup Hooks : RegisterCancelFunc(f)
    \/ Finalize
    \/ ExecRun
    \/ \E res \in RunResults : ExecReturn(res)

SpecCtx == InitCtx /\ [][NextCtx]_vars

----------------------------------------------------------------------------
(* Ledger view of the invocation context. *)

\* uint32 arithmetic, on words of UintBits bits.
UintMod == 2 ^ UintBits
MaxUint == UintMod - 1
Uint32(x) == x % UintMod

\* The ledger. A block is known by its hash; HashOf(i) is the hash of the
\* block (and header) of index i, ZeroHash the hash of no block.
ZeroHash == 0
HashOf(i) == i + 1
IndexOf(h) == h - 1

\* Ledger.BlockHeight, Ledger.CurrentBlockHash, Ledger.GetHeaderHash and
\* Ledger.GetBlock of the ledger chain.
ChainBlockHeight(chain) == chain.height
ChainCurrentBlockHash(chain) == HashOf(chain.height)
ChainGetHeaderHash(chain, i) == HashOf(i)
ChainGetBlock(chain, h) ==
    IF h # ZeroHash /\ IndexOf(h) \in chain.blocks
    THEN [err |-> "nil", Index |-> IndexOf(h)]
    ELSE [err |-> "LedgerError", Index |-> -1]

BlockHeight(chain, block) ==
    IF ~block.nil THEN Uint32(block.Index - 1) ELSE ChainBlockHeight(chain)

CurrentBlockHash(chain, block) ==
    IF ~block.nil THEN ChainGetHeaderHash(chain, Uint32(block.Index - 1))
    ELSE ChainCurrentBlockHash(chain)

\* A mutant of GetBlock: the block of the ledger is returned whatever its index.
GetBlockUnfiltered(chain, block, h) == ChainGetBlock(chain, h)

GetBlock(chain, block, h) ==
    LET r == ChainGetBlock(chain, h)
    IN  IF r.err # "nil" THEN r
        ELSE IF r.Index > BlockHeight(chain, block)
        THEN [err |-> "KeyNotFound", Index |-> -1]
        ELSE r

\* config.Hardfork.String: the name of a hardfork, the key of ic.Hardforks.
String(hf) == <<72, 70, hf>>

\* A mutant of IsHardforkEnabled: the persisting block is not counted.
IsHardforkEnabledAtStored(chain, block, hfs, hf) ==
    IF String(hf) \in DOMAIN hfs
    THEN BlockHeight(chain, block) >= hfs[String(hf)]
    ELSE FALSE

IsHardforkEnabled(chain, block, hfs, hf) ==
    IF String(hf) \in DOMAIN hfs
    THEN Uint32(BlockHeight(chain, block) + 1) >= hfs[String(hf)]
    ELSE FALSE

\* IsHardforkActivation: "true", "false", or "panic" where ic.Block is nil
\* and is dereferenced.
IsHardforkActivation(block, hfs, hf) ==
    IF String(hf) \notin DOMAIN hfs THEN "false"
    ELSE IF block.nil THEN "panic"
    ELSE IF block.Index = hfs[String(hf)] THEN "true" ELSE "false"

\* ---- operations ----

QueryBlockHeight ==
    /\ view' = [op |-> "BlockHeight", res |-> BlockHeight(Chain, Block)]
    /\ UNCHANGED <<Chain, Block, Hardforks, dvars, mvars, cvars, bvars, xvars>>

QueryCurrentBlockHash ==
    /\ view' = [op |-> "CurrentBlockHash", res |-> CurrentBlockHash(Chain, Block)]
    /\ UNCHANGED <<Chain, Block, Hardforks, dvars, mvars, cvars, bvars, xvars>>

QueryGetBlock(h) ==
    /\ view' = [op |-> "GetBlock", h |-> h, res |-> GetBlock(Chain, Block, h)]
    /\ UNCHANGED <<Chain, Block, Hardforks, dvars, mvars, cvars, bvars, xvars>>

QueryIsHardforkEnabled(hf) ==
    /\ view' = [op |-> "IsHardforkEnabled", hf |-> hf,
                res |-> IsHardforkEnabled(Chain, Block, Hardforks, hf)]
    /\ UNCHANGED <<Chain, Block, Hardforks, dvars, mvars, cvars, bvars, xvars>>

QueryIsHardforkActivation(hf) ==
    /\ view' = [op |-> "IsHardforkActivation", hf |-> hf,
                res |-> IsHardforkActivation(Block, Hardforks, hf)]
    /\ UNCHANGED <<Chain, Block, Hardforks, dvars, mvars, cvars, bvars, xvars>>

\* ---- inputs ----

\* Block indexes and heights: the ends of the range, and 99 and 100.
Indexes == {0, 1, 99, 100, MaxUint}
LedgerBlockSets == SUBSET {0, 99, 100}
ActivationHeights == {0, 100}
HardforkMaps ==
    UNION {[names -> ActivationHeights] : names \in SUBSET {String(hf) : hf \in HFs}}
Hashes == {ZeroHash} \cup {HashOf(i) : i \in {0, 99, 100}}

\* NewContext over a ledger, with or without a block.
InitView ==
    /\ Chain \in [height : {0, 99, 100, MaxUint}, blocks : LedgerBlockSets]
    /\ Block \in {NoBlock} \cup [nil : {FALSE}, Index : Indexes]
    /\ Hardforks \in HardforkMaps
    /\ view = [op |-> "none"]
    /\ Functions = <<>> /\ baseExecFee = DefaultBaseExecFee /\ GasLimit = -1
    /\ gasConsumed = 0 /\ last = [id |-> -1]
    /\ Methods = <<>> /\ Events = <<>> /\ ActiveHFs = {}
    /\ mdCache = <<>> /\ builtFor = <<>> /\ lookup = [op |-> "none"]
    /\ cancelFuncs = <<>> /\ regCalls = <<>> /\ finLog = <<>> /\ op = "NewContext"
    /\ exec = [state |-> "idle"] /\ fin = NoFinalize
    /\ thr = [t \in Threads |-> IdleThread] /\ descOffsets = <<>> /\ builds = {}
    /\ observed = FALSE /\ returned = {} /\ cacheObj = <<>>
    /\ Container = NoContainer /\ Tx = NoTx /\ NonceData = ZeroNonceData
    /\ signers = NilSlice /\ Notifications = <<>>
    /\ used = [called |-> FALSE] /\ ret = [op |-> "none"]

NextView ==
    \/ QueryBlockHeight
    \/ QueryCurrentBlockHash
    \/ \E h \in Hashes : QueryGetBlock(h)
    \/ \E hf \in HFs : QueryIsHardforkEnabled(hf)
    \/ \E hf \in HFs : QueryIsHardforkActivation(hf)

SpecView == InitView /\ [][NextView]_vars

----------------------------------------------------------------------------
(* Data of the invocation context: nonce, signers, notifications. *)

\* Bytes, and the uint64 of 8 bytes.
ByteMod == 2 ^ ByteBits
Bytes == 0..(ByteMod - 1)

\* binary.LittleEndian.Uint64: b[0] | b[1]<<8 | ... | b[7]<<56, of the bytes
\* b (1-based here).
LittleEndianUint64(b) ==
    b[1] + ByteMod * (b[2] + ByteMod * (b[3] + ByteMod * (b[4] + ByteMod *
        (b[5] + ByteMod * (b[6] + ByteMod * (b[7] + ByteMod * b[8]))))))

\* binary.LittleEndian.PutUint64: b[i] = byte(v >> (8 * i)) for i in 0..7.
LittleEndianPutUint64(b, v) ==
    [i \in 1..Len(b) |->
        IF i <= 8 THEN (v \div (ByteMod ^ (i - 1))) % ByteMod ELSE b[i]]

\* copy(dst, src): the first min(len(dst), len(src)) elements are copied.
CopyBytes(dst, src) ==
    [i \in 1..Len(dst) |-> IF i <= Len(src) THEN src[i] ELSE dst[i]]

\* A mutant of InitNonceDataResult: the block nonce is applied before the
\* hash is copied.
InitNonceDataHashLast(container, block, nd) ==
    LET nd1 == IF ~block.nil
               THEN LittleEndianPutUint64(nd,
                        BitXor(block.Nonce, LittleEndianUint64(nd)))
               ELSE nd
    IN  IF container.kind = "tx" THEN CopyBytes(nd1, container.Hash) ELSE nd1

\* InitNonceData: ic.NonceData after the call, nd before it.
InitNonceDataResult(container, block, nd) ==
    LET nd1 == IF container.kind = "tx" THEN CopyBytes(nd, container.Hash) ELSE nd
    IN  IF ~block.nil
        THEN LittleEndianPutUint64(nd1,
                 BitXor(block.Nonce, LittleEndianUint64(nd1)))
        ELSE nd1

\* A mutant of SignersResult: an empty override is taken for no override.
SignersResultByLen(sg, tx) ==
    IF Len(sg.elems) # 0 THEN sg
    ELSE IF ~tx.nil THEN tx.Signers
    ELSE NilSlice

\* Signers: the override, else the signers of the transaction, else nil.
SignersResult(sg, tx) ==
    IF ~sg.nil THEN sg
    ELSE IF ~tx.nil THEN tx.Signers
    ELSE NilSlice

\* A mutant of Notify: the event is put in front of the list.
NotifyInFront(ns, hash, name, item) ==
    <<[ScriptHash |-> hash, Name |-> name, Item |-> item]>> \o ns

\* AddNotification's update of ic.Notifications.
Notify(ns, hash, name, item) ==
    Append(ns, [ScriptHash |-> hash, Name |-> name, Item |-> item])

\* ---- operations ----

InitNonceData ==
    /\ NonceData' = InitNonceDataResult(Container, Block, NonceData)
    /\ ret' = [op |-> "InitNonceData", before |-> NonceData]
    /\ UNCHANGED <<Container, Tx, signers, Notifications, used,
                   Block, Chain, Hardforks, view, dvars, mvars, cvars, bvars>>

UseSigners(s) ==
    /\ signers' = s
    /\ used' = [called |-> TRUE, s |-> s]
    /\ ret' = [op |-> "UseSigners"]
    /\ UNCHANGED <<Container, Tx, NonceData, Notifications,
                   dvars, mvars, cvars, lvars, bvars>>

Signers ==
    /\ ret' = [op |-> "Signers", res |-> SignersResult(signers, Tx)]
    /\ UNCHANGED <<Container, Tx, NonceData, signers, Notifications, used,
                   dvars, mvars, cvars, lvars, bvars>>

AddNotification(hash, name, item) ==
    /\ Len(Notifications) < MaxNotifs
    /\ Notifications' = Notify(Notifications, hash, name, item)
    /\ ret' = [op |-> "AddNotification", before |-> Notifications,
               hash |-> hash, name |-> name, item |-> item]
    /\ UNCHANGED <<Container, Tx, NonceData, signers, used,
                   dvars, mvars, cvars, lvars, bvars>>

\* ---- inputs ----

\* The hashes of the transactions, as their 32 big-endian bytes.
TxHashes ==
    {[i \in 1..32 |-> (3 * i + 1) % ByteMod],
     [i \in 1..32 |-> IF i % 5 = 0 THEN ByteMod - 1 ELSE i % 2]}

\* The nonces of the blocks: 0, the largest one, and values whose bytes differ.
Nonces ==
    {0, 1, ByteMod, ByteMod ^ 8 - 1, ByteMod ^ 7 + 2 * ByteMod + 1,
     LittleEndianUint64([i \in 1..8 |-> (i + 1) % ByteMod])}

SignerLists == {<<>>, <<1>>, <<2, 1>>}
SignerSlices == {NilSlice} \cup {Slice(l) : l \in SignerLists}

NotificationHashes == {1, 2}
NotificationItems  == {<<>>, <<1>>}

\* NewContext with or without a block and a transaction, and the container
\* set by the caller: none, a transaction or a block.
InitData ==
    /\ Container \in {NoContainer, [kind |-> "block"]}
                      \cup [kind : {"tx"}, Hash : TxHashes]
    /\ Block \in {NoBlock} \cup [nil : {FALSE}, Index : {1}, Nonce : Nonces]
    /\ Tx \in {NoTx} \cup [nil : {FALSE}, Signers : SignerSlices]
    /\ NonceData = ZeroNonceData
    /\ signers = NilSlice /\ Notifications = <<>>
    /\ used = [called |-> FALSE] /\ ret = [op |-> "none"]
    /\ Chain = [height |-> 0, blocks |-> {0}]
    /\ Hardforks = <<>> /\ view = [op |-> "none"]
    /\ Functions = <<>> /\ baseExecFee = DefaultBaseExecFee /\ GasLimit = -1
    /\ gasConsumed = 0 /\ last = [id |-> -1]
    /\ Methods = <<>> /\ Events = <<>> /\ ActiveHFs = {}
    /\ mdCache = <<>> /\ builtFor = <<>> /\ lookup = [op |-> "none"]
    /\ cancelFuncs = <<>> /\ regCalls = <<>> /\ finLog = <<>> /\ op = "NewContext"
    /\ exec = [state |-> "idle"] /\ fin = NoFinalize
    /\ thr = [t \in Threads |-> IdleThread] /\ descOffsets = <<>> /\ builds = {}
    /\ observed = FALSE /\ returned = {} /\ cacheObj = <<>>

NextNonce == InitNonceData

SpecNonce == InitData /\ [][NextNonce]_vars

NextSigners ==
    \/ \E s \in SignerSlices : UseSigners(s)
    \/ Signers

SpecSigners == InitData /\ [][NextSigners]_vars

NextNotify ==
    \E hash \in NotificationHashes, name \in EventNames, item \in NotificationItems :
        AddNotification(hash, name, item)

SpecNotify == InitData /\ [][NextNotify]_vars

----------------------------------------------------------------------------
(* Claims on syscall dispatch, stated on the observation of the last call. *)

Dispatched == last # NoDispatch

\* The bits set in a call-flag value.
Bits(x) == {i \in 0..4 : (x \div (2 ^ i)) % 2 = 1}

InTable(id) == \E i \in 1..Len(Functions) : Functions[i].ID = id
FnOf(id) == Functions[CHOOSE i \in 1..Len(Functions) : Functions[i].ID = id]

\* The last dispatch asked for a function of the table whose required bits
\* are all among the frame's call flags.
Permitted ==
    /\ InTable(last.id)
    /\ Bits(FnOf(last.id).RequiredFlags) \subseteq Bits(last.cf)

\* The charge of the last dispatch fits the gas limit.
GasSuffices ==
    \/ GasLimit < 0
    \/ last.gasBefore + FnOf(last.id).Price * baseExecFee <= GasLimit

\* C1: a gas deduction of price * base_exec_fee is attempted exactly when the id
\* resolves to a function and the frame's call flags include every required
\* bit; with a required bit missing the result is MissingCallFlags, the
\* consumed gas is unchanged and the handler is not invoked.
C1_GasChargedIffPermitted ==
    Dispatched =>
        /\ (last.charged # <<>>) <=> Permitted
        /\ Permitted => last.charged = <<FnOf(last.id).Price * baseExecFee>>
        /\ (InTable(last.id) /\ ~Permitted) =>
                /\ last.result = "MissingCallFlags"
                /\ gasConsumed = last.gasBefore
                /\ last.handlerRets = <<>>

C1_Witness ==
    /\ Dispatched
    /\ last.result = "MissingCallFlags"
    /\ last.gasBefore > 0
    /\ last.cf # NoneFlag

\* C2: the handler is invoked exactly once iff the lookup, the call-flag check
\* and the gas charge all succeeded and zero times otherwise, never after
\* InsufficientGas; when it is invoked the dispatch returns its result.
C2_HandlerOnceIffAllPassed ==
    Dispatched =>
        /\ Len(last.handlerRets) = (IF Permitted /\ GasSuffices THEN 1 ELSE 0)
        /\ last.result = "InsufficientGas" => last.handlerRets = <<>>
        /\ last.handlerRets # <<>> => last.result = last.handlerRets[1]

C2_Witness ==
    /\ Dispatched
    /\ last.handlerRets = <<"HandlerFailure">>
    /\ last.result = "HandlerFailure"
    /\ GasLimit >= 0

\* C3: absence before permission before gas: an id that is not in the table
\* fails with SyscallNotFound whatever the call flags and the remaining gas,
\* and a dispatch with both missing flags and insufficient gas fails with
\* MissingCallFlags.
C3_FailurePrecedence ==
    Dispatched =>
        /\ ~InTable(last.id) => last.result = "SyscallNotFound"
        /\ (InTable(last.id) /\ ~Permitted /\ ~GasSuffices) =>
                last.result = "MissingCallFlags"

C3_Witness ==
    /\ Dispatched
    /\ InTable(last.id)
    /\ ~Permitted
    /\ ~GasSuffices
    /\ last.result = "MissingCallFlags"

----------------------------------------------------------------------------
(* Claims on native contract descriptors. *)

\* The declared name and parameter count of each method of a list, in order.
Signatures(ms) == [i \in 1..Len(ms) |-> <<ms[i].Name, ms[i].NParams>>]
EventNamesOf(es) == [i \in 1..Len(es) |-> es[i].Name]
Range(f) == {f[i] : i \in DOMAIN f}

\* The filtering rule as specified: a member is kept iff its active_from is
\* unset, or H is set and active_from <= H.
ActiveAt(af, H) == af = NoHF \/ (H # NoHF /\ af <= H)

\* C4: a method m (and likewise an event e) is in materialise(c, H) iff
\* m.active_from is unset, or H is set and m.active_from <= H.
C4_HardforkFilter ==
    \A key \in DOMAIN mdCache :
        LET H == builtFor[key]
        IN  /\ Signatures(mdCache[key].Methods) =
                   Signatures(SelectSeq(Methods, LAMBDA m : ActiveAt(m.ActiveFrom, H)))
            /\ mdCache[key].Events =
                   [i \in 1..Len(SelectSeq(Events, LAMBDA e : ActiveAt(e.ActiveFrom, H)))
                       |-> [Name |-> SelectSeq(Events,
                                        LAMBDA e : ActiveAt(e.ActiveFrom, H))[i].Name]]

\* C5: for all hardforks H1 <= H2 the methods of materialise(c, H1) are among
\* the methods of materialise(c, H2), and likewise the events.
C5_MonotoneInHardfork ==
    \A k1 \in DOMAIN mdCache, k2 \in DOMAIN mdCache :
        (builtFor[k1] # NoHF /\ builtFor[k2] # NoHF /\ builtFor[k1] <= builtFor[k2]) =>
            /\ Range(Signatures(mdCache[k1].Methods))
                   \subseteq Range(Signatures(mdCache[k2].Methods))
            /\ Range(EventNamesOf(mdCache[k1].Events))
                   \subseteq Range(EventNamesOf(mdCache[k2].Events))

\* Bytewise order of names, stated on positions: a is a proper prefix of b,
\* or the first position where they differ holds a smaller character in a.
NameLess(a, b) ==
    \E k \in 1..(Len(b)) :
        /\ \A j \in 1..(k - 1) : j <= Len(a) /\ a[j] = b[j]
        /\ (k > Len(a) \/ a[k] < b[k])

Copy(n) == [Name |-> <<3, 15, 16, 25>>, NParams |-> n, ActiveFrom |-> NoHF,
            RequiredFlags |-> NoneFlag, Safe |-> Safe(NoneFlag)]

\* copy(a,b), copy(a,b,c) and copy(a) registered in this order.
CopyRegistered ==
    AddMethodList(AddMethodList(AddMethodList(<<>>, Copy(2)), Copy(3)), Copy(1))

\* C6 as stated: after any sequence of add_method calls methods[] is sorted by
\* name ascending and, among equal names, by parameter count descending (so
\* that three overloads of a name stand in the order 3, 2, 1 parameters).
C6_SortedNameThenArityDescending ==
    \A i \in 1..Len(Methods), j \in 1..Len(Methods) :
        i < j => \/ NameLess(Methods[i].Name, Methods[j].Name)
                 \/ /\ Methods[i].Name = Methods[j].Name
                    /\ Methods[i].NParams >= Methods[j].NParams

\* C6 as amended: methods[] is sorted by name ascending and, among equal
\* names, by parameter count ascending; copy(a,b), copy(a,b,c), copy(a) are
\* left as copy(a), copy(a,b), copy(a,b,c).
C6_SortedNameThenArityAscending ==
    /\ \A i \in 1..Len(Methods), j \in 1..Len(Methods) :
           i < j => \/ NameLess(Methods[i].Name, Methods[j].Name)
                    \/ /\ Methods[i].Name = Methods[j].Name
                       /\ Methods[i].NParams <= Methods[j].NParams
    /\ CopyRegistered = <<Copy(1), Copy(2), Copy(3)>>

\* Three overloads of one name and a method of another name are registered.
C6_Witness ==
    /\ Len(Methods) = 3
    /\ Methods[1].Name = Methods[2].Name
    /\ Methods[2].Name # Methods[3].Name
    /\ Methods[1].NParams < Methods[2].NParams
    /\ Methods[3].NParams < Methods[1].NParams

\* The methods of the descriptor the last lookup was made on.
Looked == mdCache[lookup.key].Methods
Overloads(ms, name) == {i \in 1..Len(ms) : ms[i].Name = name}

\* C7: get_method(name, n) with n >= 0 reports found iff the table holds a
\* method with that name and exactly n parameters, and the method returned has
\* that name and that parameter count.
C7_ExactArityLookup ==
    (lookup.op = "GetMethod" /\ lookup.n >= 0) =>
        /\ lookup.found <=>
               \E i \in 1..Len(Looked) :
                   Looked[i].Name = lookup.name /\ Looked[i].NParams = lookup.n
        /\ lookup.found =>
               /\ lookup.m.Name = lookup.name
               /\ lookup.m.NParams = lookup.n
               /\ \E i \in 1..Len(Looked) : Looked[i] = lookup.m

\* An overload other than the first of its name is found.
C7_Witness ==
    /\ lookup.op = "GetMethod" /\ lookup.n >= 0 /\ lookup.found
    /\ Cardinality(Overloads(Looked, lookup.name)) >= 2
    /\ \E i \in Overloads(Looked, lookup.name) : Looked[i].NParams < lookup.n
    /\ Len(Looked) < Len(Methods)

\* C8 as stated: get_method(name, -1) reports found iff the name has a method
\* in the table, and returns the overload with the largest parameter count.
C8_AnyArityReturnsLargest ==
    (lookup.op = "GetMethod" /\ lookup.n = -1) =>
        /\ lookup.found <=> Overloads(Looked, lookup.name) # {}
        /\ lookup.found =>
               /\ lookup.m.Name = lookup.name
               /\ \E i \in Overloads(Looked, lookup.name) : Looked[i] = lookup.m
               /\ \A i \in Overloads(Looked, lookup.name) :
                      Looked[i].NParams <= lookup.m.NParams

\* C8 as amended: get_method(name, -1) reports found iff the name has a method
\* in the table, and returns the overload with the smallest parameter count.
C8_AnyArityReturnsSmallest ==
    (lookup.op = "GetMethod" /\ lookup.n = -1) =>
        /\ lookup.found <=> Overloads(Looked, lookup.name) # {}
        /\ lookup.found =>
               /\ lookup.m.Name = lookup.name
               /\ \E i \in Overloads(Looked, lookup.name) : Looked[i] = lookup.m
               /\ \A i \in Overloads(Looked, lookup.name) :
                      Looked[i].NParams >= lookup.m.NParams

\* An any-arity lookup of a name with overloads of different arities, behind
\* a method of a smaller name.
C8_Witness ==
    /\ lookup.op = "GetMethod" /\ lookup.n = -1 /\ lookup.found
    /\ \E i \in Overloads(Looked, lookup.name) : Looked[i].NParams > lookup.m.NParams
    /\ \E i \in 1..Len(Looked) : NameLess(Looked[i].Name, lookup.name)

\* C9: in every materialised descriptor the syscall offsets of distinct
\* methods differ; get_method_by_offset(off) returns the method whose
\* syscall offset is off, and reports not found when there is none.
C9_OffsetDispatch ==
    /\ \A key \in DOMAIN mdCache :
           \A i \in 1..Len(mdCache[key].Methods), j \in 1..Len(mdCache[key].Methods) :
               i # j => mdCache[key].Methods[i].SyscallOffset
                            # mdCache[key].Methods[j].SyscallOffset
    /\ lookup.op = "GetMethodByOffset" =>
           /\ lookup.found <=>
                  \E i \in 1..Len(Looked) : Looked[i].SyscallOffset = lookup.offset
           /\ \A i \in 1..Len(Looked) :
                  Looked[i].SyscallOffset = lookup.offset =>
                      lookup.found /\ lookup.m = Looked[i]

\* The last of three methods is found by its syscall offset.
C9_Witness ==
    /\ lookup.op = "GetMethodByOffset" /\ lookup.found
    /\ Len(Looked) = 3
    /\ lookup.m = Looked[3]
    /\ lookup.m.SyscallOffset = lookup.offset

----------------------------------------------------------------------------
(* Claims on teardown hooks. *)

\* The hooks among the arguments of the registrations, in call order.
HooksOf(calls) == SelectSeq(calls, LAMBDA f : f # NilFunc)

\* C10: finalize() invokes every hook registered with register_cancel_fn since
\* the previous finalize exactly once, in registration order, and then clears
\* the list; a second finalize() with no registration in between invokes no
\* hook.
C10_FinalizeRunsHooksInOrder ==
    [][op' = "Finalize" =>
          /\ finLog' = HooksOf(regCalls)
          /\ cancelFuncs' = <<>>
          /\ (op = "Finalize" => finLog' = <<>>)]_vars

\* A finalize has run two different hooks, one of which registers a hook
\* while it runs.
C10_Witness ==
    /\ op = "Finalize"
    /\ Len(finLog) = 3
    /\ finLog[1] # finLog[2]
    /\ \E i \in 1..Len(finLog) : RegistersOnRun(finLog[i]) # NilFunc

\* C11: whether the VM run ends in success or in a fault, when exec() returns
\* every hook registered before or during the run has been invoked exactly
\* once, in registration order, and the hook list is empty.
C11_ExecAlwaysFinalizes ==
    op = "Exec" =>
        /\ exec.state = "returned"
        /\ finLog = HooksOf(exec.registered)
        /\ cancelFuncs = <<>>

\* A faulted run has returned; a hook was registered before the run and
\* another one during it.
C11_Witness ==
    /\ op = "Exec"
    /\ exec.result = "FAULT"
    /\ HooksOf(exec.before) # <<>>
    /\ Len(HooksOf(exec.registered)) > Len(HooksOf(exec.before))
    /\ Len(finLog) >= 2

----------------------------------------------------------------------------
(* Claims on the ledger view. *)

\* The last query was get_block for the hash of a block the ledger holds.
AskedHeldBlock ==
    /\ view.op = "GetBlock"
    /\ view.h # ZeroHash
    /\ IndexOf(view.h) \in Chain.blocks

\* C12: with an attached block of index k, for every k of the unsigned range
\* (k = 0 included), block_height() equals k - 1 and get_block(h) returns
\* KeyNotFound for every block the ledger holds whose index is greater than
\* k - 1, so the block of index k is never returned.
C12_PersistingBlockView ==
    ~Block.nil =>
        /\ view.op = "BlockHeight" => view.res = Block.Index - 1
        /\ (AskedHeldBlock /\ IndexOf(view.h) > Block.Index - 1) =>
               view.res.err = "KeyNotFound"
        /\ (AskedHeldBlock /\ IndexOf(view.h) = Block.Index) =>
               view.res.err # "nil"

\* The activation height of the hardfork of the last query is known.
HeightKnown == String(view.hf) \in DOMAIN Hardforks
HeightOf(hf) == Hardforks[String(hf)]

\* C13: is_hardfork_activation(hf) returns true iff a block is attached and
\* its index equals the activation height of hf; with no block attached it
\* returns false for every hardfork, in the map or not, and never faults.
C13_ActivationNeverFaults ==
    view.op = "IsHardforkActivation" =>
        /\ view.res \in {"true", "false"}
        /\ view.res = "true" <=>
               (~Block.nil /\ HeightKnown /\ Block.Index = HeightOf(view.hf))
        /\ Block.nil => view.res = "false"

\* block_height() as the claims describe it: k - 1 with an attached block of
\* index k, the height of the ledger otherwise.
HeightSeen == IF ~Block.nil THEN Block.Index - 1 ELSE Chain.height

C15_ForwardsToLedger ==
    Block.nil =>
        /\ view.op = "BlockHeight" => view.res = ChainBlockHeight(Chain)
        /\ view.op = "CurrentBlockHash" => view.res = ChainCurrentBlockHash(Chain)
        /\ view.op = "GetBlock" => view.res = ChainGetBlock(Chain, view.h)

\* C15 as amended: the same, except that get_block(h) returns KeyNotFound
\* for a block the ledger holds whose index is above the ledger's height.
C15_ForwardsToLedgerUpToHeight ==
    Block.nil =>
        /\ view.op = "BlockHeight" => view.res = ChainBlockHeight(Chain)
        /\ view.op = "CurrentBlockHash" => view.res = ChainCurrentBlockHash(Chain)
        /\ view.op = "GetBlock" =>
               IF AskedHeldBlock /\ IndexOf(view.h) > ChainBlockHeight(Chain)
               THEN view.res.err = "KeyNotFound"
               ELSE view.res = ChainGetBlock(Chain, view.h)

\* With no block attached, a block the ledger holds at its height is
\* returned, over a ledger that also holds a block above its height.
C15_Witness ==
    /\ Block.nil
    /\ AskedHeldBlock /\ view.res.err = "nil"
    /\ IndexOf(view.h) = Chain.height
    /\ \E i \in Chain.blocks : i > Chain.height

----------------------------------------------------------------------------
(* Claims on materialisation. *)

\* C16: any two builds for the same ContractMD and the same hardfork
\* argument, by one caller or by concurrent callers under any interleaving,
\* yield the same method and event tables, the same offset and syscall offset
\* per method, the same stub script and the same NEF checksum: those that
\* the declarations and the hardfork determine.
C16_MaterialisePure ==
    /\ \A b1 \in builds, b2 \in builds : b1.hf = b2.hf => b1.md = b2.md
    /\ \A b \in builds :
           LET f == buildHFSpecificMD(Methods, Events, b.hf)
           IN  /\ b.md.Methods = f.Methods
               /\ b.md.Events = f.Events
               /\ b.md.Script = f.Script
               /\ b.md.Checksum = Checksum(f.Script)
               /\ b.md.ABIMethods =
                      [i \in 1..Len(f.Methods) |->
                          [Name |-> f.Methods[i].Name, Offset |-> f.Methods[i].Offset]]

\* Two callers have each built the descriptor of the same hardfork, which
\* has two methods, and a descriptor of fewer methods was built too.
C16_Witness ==
    \E b1 \in builds, b2 \in builds, b3 \in builds :
        /\ b1.hf = b2.hf /\ b1.by # b2.by
        /\ Len(b1.md.Methods) = 2
        /\ Len(b3.md.Methods) = 1

\* The script bytes from offset off (0-based) on, n of them.
BytesAt(script, off, n) == SubSeq(script, off + 1, off + n)

----------------------------------------------------------------------------
(* Claims on the data of the invocation context. *)

\* C18: each add_notification call extends the notification list by exactly
\* one entry at the end, the (hash, name, payload) of the call, and leaves
\* every earlier entry unchanged, so the list is the sequence of the calls'
\* triples in call order.
C18_NotificationsAppendOnly ==
    [][ret'.op = "AddNotification" =>
          /\ Len(Notifications') = Len(Notifications) + 1
          /\ \A i \in 1..Len(Notifications) : Notifications'[i] = Notifications[i]
          /\ Notifications'[Len(Notifications')] =
                 [ScriptHash |-> ret'.hash, Name |-> ret'.name, Item |-> ret'.item]]_vars

\* Two different notifications were added, the second one last.
C18_Witness ==
    /\ ret.op = "AddNotification"
    /\ Len(Notifications) = 2
    /\ Notifications[1] # Notifications[2]
    /\ Notifications[2].ScriptHash = ret.hash
    /\ Notifications[2].Name = ret.name

\* The bytes b[from..to) read as a little-endian integer.
RECURSIVE ReadLE(_, _, _)
ReadLE(b, from, to) ==
    IF from >= to THEN 0 ELSE b[from + 1] + ByteMod * ReadLE(b, from + 1, to)

\* The last call was init_nonce_data on a fresh context.
NonceSeeded == ret.op = "InitNonceData" /\ ret.before = ZeroNonceData

\* C19: after init_nonce_data on a fresh context whose container is a
\* transaction with big-endian hash T and whose block has nonce N, the first
\* 8 bytes of nonce_data read little-endian equal (T[0..8] read little-endian)
\* XOR N and bytes 8..16 equal T[8..16]; with no block nonce_data[0..16]
\* equals T[0..16]; with a block and a container that is no transaction the
\* first 8 bytes encode N and the rest are zero.
C19_NonceSeeding ==
    NonceSeeded =>
        /\ (Container.kind = "tx" /\ ~Block.nil) =>
               /\ ReadLE(NonceData, 0, 8) =
                      BitXor(ReadLE(Container.Hash, 0, 8), Block.Nonce)
               /\ \A i \in 8..15 : NonceData[i + 1] = Container.Hash[i + 1]
        /\ (Container.kind = "tx" /\ Block.nil) =>
               \A i \in 0..15 : NonceData[i + 1] = Container.Hash[i + 1]
        /\ (Container.kind # "tx" /\ ~Block.nil) =>
               /\ ReadLE(NonceData, 0, 8) = Block.Nonce
               /\ \A i \in 8..15 : NonceData[i + 1] = 0
        /\ Len(NonceData) = 16
        /\ \A i \in 1..16 : NonceData[i] \in Bytes

\* A transaction and a block whose nonce has different bytes: the first 8
\* bytes are neither those of the hash nor those of the nonce.
C19_Witness ==
    /\ NonceSeeded
    /\ Container.kind = "tx" /\ ~Block.nil
    /\ Block.Nonce # ReadLE(LittleEndianPutUint64(ZeroNonceData, Block.Nonce), 0, 1)
    /\ ReadLE(NonceData, 0, 8) # Block.Nonce
    /\ \E i \in 1..8 : NonceData[i] # Container.Hash[i]
    /\ \E i \in 1..8 : NonceData[i] = Container.Hash[i]

\* The last call was signers().
AskedSigners == ret.op = "Signers"
TxSigners == IF ~Tx.nil THEN Tx.Signers.elems ELSE <<>>

\* C20 as stated: after use_signers(s), for every list s including the empty
\* list, signers() returns s whatever the transaction's signers are; with no
\* use_signers call it returns the transaction's signers when there is a
\* transaction and an empty list otherwise.
C20_SignersOverride ==
    AskedSigners =>
        IF used.called THEN ret.res.elems = used.s.elems
        ELSE ret.res.elems = TxSigners

\* C20 as amended: after use_signers(s), for every list s that is not nil,
\* the empty list included, signers() returns s; after use_signers(nil), and
\* with no use_signers call, it returns the transaction's signers when there
\* is a transaction and an empty list otherwise.
C20_SignersOverrideUnlessNil ==
    AskedSigners =>
        IF used.called /\ ~used.s.nil THEN ret.res = used.s
        ELSE ret.res.elems = TxSigners

\* The override is the empty list, not nil, the transaction has signers, and
\* signers() returns the empty list.
C20_Witness ==
    /\ AskedSigners
    /\ used.called /\ ~used.s.nil /\ used.s.elems = <<>>
    /\ TxSigners # <<>>
    /\ ret.res.elems = <<>>

----------------------------------------------------------------------------
(* Claims on hooks registered while Finalize runs. *)

\* The number of entries of the list cfs that are the hook h.
Count(cfs, h) == Cardinality({i \in 1..Len(cfs) : cfs[i] = h})

\* C25: no registered hook is dropped without being run. When Finalize has
\* returned, by itself or at the exit of Exec, every hook that was in the
\* list when it began or that a running hook registered meanwhile has been
\* invoked by it once or is in the list, where the next Finalize finds it.
C25_NoHookDropped ==
    op \in {"Finalize", "Exec"} =>
        \A h \in Hooks :
            Count(fin.before, h) + Count(fin.late, h)
                = Count(finLog, h) + Count(cancelFuncs, h)

----------------------------------------------------------------------------
(* Claims on the safe flag. *)

\* C23 as stated: after AddMethod, a method is marked safe iff its required
\* flags, any value of the 5-bit encoding, are a subset of ReadOnly.
C23_SafeIffSubsetOfReadOnly ==
    \A i \in 1..Len(Methods) :
        Methods[i].Safe <=> Bits(Methods[i].RequiredFlags) \subseteq Bits(ReadOnly)

\* C23, amended: after AddMethod, a method is marked safe iff its required
\* flags hold neither WriteStates nor AllowNotify; a bit that is none of the
\* four flags of All does not count.
C23_SafeIffNoWriteNoNotify ==
    \A i \in 1..Len(Methods) :
        Methods[i].Safe <=>
            Bits(Methods[i].RequiredFlags)
                \cap (Bits(WriteStates) \cup Bits(AllowNotify)) = {}

\* Three methods are registered: one requires ReadOnly, one requires States
\* and one requires a bit outside All together with AllowCall.
C23_Witness ==
    \E i, j, k \in 1..Len(Methods) :
        /\ Methods[i].RequiredFlags = ReadOnly /\ Methods[i].Safe
        /\ Methods[j].RequiredFlags = States /\ ~Methods[j].Safe
        /\ Methods[k].RequiredFlags = All + 1 + AllowCall /\ Methods[k].Safe

----------------------------------------------------------------------------
(* Claims on the cache key. *)

\* C24: the descriptor HFSpecificContractMD(hf) returns does not depend on
\* the requests made before: after any sequence of requests, the descriptor
\* returned for hf, which is the one cached under the key of hf, has the
\* methods, events and offsets of a fresh materialisation for hf, for hf
\* absent, the zero hardfork and every hardfork.
C24_IndependentOfHistory ==
    lookup.op = "HFSpecificContractMD" =>
        LET got   == mdCache[KeyOf(lookup.hf)]
            fresh == buildHFSpecificMD(Methods, Events, lookup.hf)
        IN  /\ got.Methods = fresh.Methods
            /\ got.Events = fresh.Events

----------------------------------------------------------------------------
(* Claims on the cache under concurrent callers. *)

\* The key of the call that caller t is in.
KeyOfCall(t) == KeyOf(thr[t].hf)

\* C21: under any interleaving of concurrent requests for one key, the
\* descriptor a caller is about to return is the cached one or structurally
\* identical to it, and all the descriptors stored under one key, of which
\* the cache (a map) holds the last, are structurally identical, so that a
\* lost race replaces an entry by an identical one.
C21_RaceYieldsIdentical ==
    /\ \A t \in Threads :
           thr[t].pc = "done" => thr[t].md = mdCache[KeyOfCall(t)]
    /\ \A b1 \in builds, b2 \in builds :
           KeyOf(b1.hf) = KeyOf(b2.hf) => b1.md = b2.md

\* C22: cache entries never expire and never mutate. No step, of any caller
\* and for any key, removes a key of the cache or changes the method table
\* (with its offsets), the event table or the stub script stored under it.
C22_EntriesNeverMutate ==
    [][\A k \in DOMAIN mdCache :
          /\ k \in DOMAIN mdCache'
          /\ mdCache'[k].Methods = mdCache[k].Methods
          /\ mdCache'[k].Events = mdCache[k].Events
          /\ mdCache'[k].Script = mdCache[k].Script]_vars

\* C26: a completed build is reused. A request that started after a request
\* for its key had returned never enters buildHFSpecificMD, where the
\* manifest finaliser is invoked, and when it leaves the cache lookup it
\* holds, unbuilt, the very object the cache holds under the key.
C26_CompletedBuildReused ==
    [][\A t \in Threads :
          (thr'[t].pc # "idle" /\ thr'[t].after) =>
              /\ thr'[t].pc \in {"check", "done"}
              /\ (thr[t].pc = "check" /\ thr'[t].pc = "done") =>
                     /\ ~thr'[t].built
                     /\ thr'[t].obj = cacheObj[KeyOfCall(t)]
                     /\ thr'[t].md = mdCache[KeyOfCall(t)]]_vars

\* A request that started after a request for its key had returned is about
\* to return a descriptor with a method that the other caller built.
C26_Witness ==
    \E t \in Threads :
        /\ thr[t].pc = "done" /\ thr[t].after
        /\ ~thr[t].built
        /\ thr[t].obj.by # t
        /\ Len(thr[t].md.Methods) >= 1
        /\ KeyOfCall(t) \in returned

====
